---- MODULE Spec2Model ----
(***************************************************************************)
(* Model of src/utils/interface.js of three-csg: importThreeGeometry,      *)
(* exportThreeGeometry and runOperation.                                   *)
(*                                                                         *)
(* Numbers.  Coordinates are fixed-point integers in units of 10^-5, one   *)
(* digit finer than VERTEX_PRECISION, so that toFixed(4) really rounds.    *)
(* Polygon normals are integer vectors of length 1 (the six axis           *)
(* directions).  Angles are in whole degrees instead of radians.  The      *)
(* components of a normalized vector are in hundredths, truncated.         *)
(* Array positions are 0-based in the source and 1-based in the sequences  *)
(* of the model; values that are written to the output (vertex indices)    *)
(* keep their 0-based value.                                               *)
(***************************************************************************)
EXTENDS Integers, Sequences, FiniteSets, TLC

VARIABLES
    pc,              \* which call has returned last
    globalCSG,       \* is the free identifier CSG of line 35 bound to the CSG class
    geometry,        \* argument of exportThreeGeometry
    smoothingAngle,  \* argument of exportThreeGeometry, in degrees
    vertexMap,       \* local vertexMap of the last export call, at its return
    groupedNormals,  \* local groupedNormals of the last export call, one per bucket
    result,          \* value returned by the last export call
    prevResult,      \* value returned by the export call before the last one
    buffer,          \* argument of importThreeGeometry
    csg,             \* value returned by importThreeGeometry
    operation,       \* arguments of runOperation
    objects,
    colors,
    outcome          \* what runOperation did

vars == <<pc, globalCSG, geometry, smoothingAngle, vertexMap, groupedNormals, result,
          prevResult, buffer, csg, operation, objects, colors, outcome>>

exportVars == <<globalCSG, geometry, smoothingAngle, vertexMap, groupedNormals, result, prevResult>>
importVars == <<buffer, csg>>
dispatchVars == <<operation, objects, colors, outcome>>

(***************************************************************************)
(* Bounds                                                                  *)
(***************************************************************************)
MaxPolys == 3       \* polygons of an exported mesh
MaxIndex == 4       \* entries of an index array given to import
MaxObjects == 2     \* objects given to runOperation

None == "none"      \* a variable that holds nothing yet

NoColor == <<>>     \* an undefined color

(***************************************************************************)
(* Vectors                                                                 *)
(***************************************************************************)
Abs(n) == IF n < 0 THEN -n ELSE n

Vector(x, y, z) == [x |-> x, y |-> y, z |-> z]

Vertex(pos) == [pos |-> pos]

Dot(a, b) == a.x * b.x + a.y * b.y + a.z * b.z

LengthSq(a) == Dot(a, a)

VecAdd(a, b) == Vector(a.x + b.x, a.y + b.y, a.z + b.z)

\* floor(sqrt(q)) for the quotients Normalize needs
SqrtTable == [q \in 0..10000 |-> CHOOSE n \in 0..100 : n * n <= q /\ q < (n + 1) * (n + 1)]

\* THREE.Vector3.normalize: divideScalar(length() || 1).  The result is in
\* hundredths: c / sqrt(lenSq) = sign(c) * sqrt(c^2 / lenSq).
NormalizeComponent(c, lenSq) ==
    LET q == (c * c * 10000) \div lenSq
    IN  IF c < 0 THEN 0 - SqrtTable[q] ELSE SqrtTable[q]

Normalize(v) ==
    LET lenSq == IF LengthSq(v) = 0 THEN 1 ELSE LengthSq(v)
    IN  Vector(NormalizeComponent(v.x, lenSq),
               NormalizeComponent(v.y, lenSq),
               NormalizeComponent(v.z, lenSq))

\* acos in degrees of d / sqrt(den2), for the cosines whose square is a
\* multiple of 1/4
ACosDeg(d, den2) ==
    LET q == (4 * d * d) \div den2
        a == CASE q >= 4 -> 0
               [] q = 3 -> 30
               [] q = 2 -> 45
               [] q = 1 -> 60
               [] OTHER -> 90
    IN  IF d < 0 THEN 180 - a ELSE a

\* THREE.Vector3.angleTo: PI/2 when either vector has length 0, otherwise
\* acos(clamp(dot / sqrt(lengthSq * lengthSq), -1, 1))
AngleTo(a, b) ==
    LET den2 == LengthSq(a) * LengthSq(b)
    IN  IF den2 = 0 THEN 90 ELSE ACosDeg(Dot(a, b), den2)

(***************************************************************************)
(* exportThreeGeometry                                                     *)
(***************************************************************************)
\* Number.prototype.toFixed(VERTEX_PRECISION): the sign, then the magnitude
\* rounded to 4 fractional digits (ties to the larger integer).  The string
\* is modelled as the pair <<has minus sign, digits as an integer>>.
ToFixed(x) == <<x < 0, (Abs(x) + 5) \div 10>>

\* line 65: the hash of a position
Hash(vertex) == <<ToFixed(vertex.x), ToFixed(vertex.y), ToFixed(vertex.z)>>

\* new THREE.Color(r, g, b)
Color(r, g, b) == [r |-> r, g |-> g, b |-> b]

\* mutant: the else branch of line 55 is missing, an uncolored polygon keeps
\* the color of the polygon before it
VertexColorStale(polygon, prev) ==
    IF polygon.shared.color # NoColor
    THEN <<polygon.shared.color[1], polygon.shared.color[2], polygon.shared.color[3]>>
    ELSE IF prev = NoColor THEN <<1, 1, 1>> ELSE prev

\* lines 52-57: the value of vertexColor after the if/else; prev is the
\* value the variable held before
VertexColor(polygon, prev) ==
    IF polygon.shared.color # NoColor
    THEN <<polygon.shared.color[1], polygon.shared.color[2], polygon.shared.color[3]>>
    ELSE <<1, 1, 1>>

\* lines 52-54: colorsUsed after the if/else
ColorsUsed(polygon, prev) == IF polygon.shared.color # NoColor THEN TRUE ELSE prev

\* vertexMap is a plain object: its own string keys in insertion order and
\* the value of each key
EmptyMap == [keys |-> <<>>, val |-> <<>>]

\* mutant: the buckets are visited in another order than insertion order
ObjectValuesReversed(map) ==
    [k \in 1..Len(map.keys) |-> map.val[map.keys[Len(map.keys) + 1 - k]]]

\* Object.values(vertexMap): the hashes are not integer-like keys, so the
\* values come in insertion order of their keys
ObjectValues(map) == [k \in 1..Len(map.keys) |-> map.val[map.keys[k]]]

\* lines 64-75: one corner of one face
AddCorner(map, vertex, normalVec, threeColor, face, idx) ==
    LET hash == Hash(vertex)
    IN  IF hash \in DOMAIN map.val
        THEN [map EXCEPT !.val[hash] =
                 [@ EXCEPT !.normals = Append(@, normalVec),
                           !.colours = Append(@, threeColor),
                           !.faces = Append(@, <<face, idx>>)]]
        ELSE [keys |-> Append(map.keys, hash),
              val |-> (hash :> [vertex |-> vertex,
                                colours |-> <<threeColor>>,
                                normals |-> <<normalVec>>,
                                faces |-> <<<<face, idx>>>>]) @@ map.val]

\* mutant: a strip instead of a fan
StripCorners(x) == <<x, x + 1, x + 2>>

\* line 63: the polygon corners of fan triangle x
FanCorners(x) == <<0, x + 1, x + 2>>

\* lines 61-76: one pass of the loop over x.  A face is named by its position
\* in faces; idx is 1..3 for the source's 0..2.
FaceStep(st, polygon, x) ==
    LET face == Len(st.faces) + 1
        normalVec == polygon.plane.normal
        threeColor == Color(st.vertexColor[1], st.vertexColor[2], st.vertexColor[3])
        corner(m, idx) == AddCorner(m, polygon.vertices[FanCorners(x)[idx] + 1].pos,
                                    normalVec, threeColor, face, idx)
    IN  [st EXCEPT !.faces = Append(@, <<0, 0, 0>>),
                   !.vertexMap = corner(corner(corner(@, 1), 2), 3)]

RECURSIVE FaceLoop(_, _, _)
\* line 60: for (let x = 0; x < polygon.vertices.length - 2; x++)
FaceLoop(st, polygon, x) ==
    IF x < Len(polygon.vertices) - 2
    THEN FaceLoop(FaceStep(st, polygon, x), polygon, x + 1)
    ELSE st

\* lines 49-77: the body of geometry.polygons.forEach
PolygonStep(st, polygon) ==
    FaceLoop([st EXCEPT !.vertexColor = VertexColor(polygon, st.vertexColor),
                        !.colorsUsed = ColorsUsed(polygon, st.colorsUsed)],
             polygon, 0)

RECURSIVE PolygonLoop(_, _, _)
\* line 48: geometry.polygons.forEach
PolygonLoop(st, polygons, p) ==
    IF p > Len(polygons) THEN st
    ELSE PolygonLoop(PolygonStep(st, polygons[p]), polygons, p + 1)

\* lines 38-46: the locals before the first loop
ExportLocals == [vertexMap |-> EmptyMap, faces |-> <<>>, colorsUsed |-> FALSE,
                 vertexColor |-> NoColor]

\* mutant: j is compared with the corner before it instead of the seed
AdmitsChained(normals, i, j, angle) ==
    AngleTo(normals[IF j > 1 THEN j - 1 ELSE j], normals[j]) <= angle

\* line 96: the test that admits j to the group of seed i
Admits(normals, i, j, angle) == AngleTo(normals[i], normals[j]) <= angle

RECURSIVE InnerLoop(_, _, _, _, _)
\* lines 92-101: g = [ungrouped |-> ungroupedNormals, currGroup |-> currGroup]
InnerLoop(normals, angle, i, j, g) ==
    IF j > Len(normals) THEN g
    ELSE IF g.ungrouped[j] /\ Admits(normals, i, j, angle)
         THEN InnerLoop(normals, angle, i, j + 1,
                        [ungrouped |-> [g.ungrouped EXCEPT ![j] = FALSE],
                         currGroup |-> Append(g.currGroup, j)])
         ELSE InnerLoop(normals, angle, i, j + 1, g)

RECURSIVE OuterLoop(_, _, _, _, _)
\* lines 87-105
OuterLoop(normals, angle, i, ungrouped, grouped) ==
    IF i > Len(normals) THEN grouped
    ELSE IF ungrouped[i]
         THEN LET g == InnerLoop(normals, angle, i, i,
                                 [ungrouped |-> [ungrouped EXCEPT ![i] = FALSE],
                                  currGroup |-> <<i>>])
              IN  OuterLoop(normals, angle, i + 1, g.ungrouped, Append(grouped, g.currGroup))
         ELSE OuterLoop(normals, angle, i + 1, ungrouped, grouped)

\* lines 84-105: groupedNormals of one bucket
GroupNormals(normals, angle) ==
    OuterLoop(normals, angle, 1, [k \in 1..Len(normals) |-> TRUE], <<>>)

RECURSIVE SumNormals(_, _, _)
\* lines 111-115
SumNormals(normals, currNormalIndices, j) ==
    IF j > Len(currNormalIndices) THEN Vector(0, 0, 0)
    ELSE VecAdd(normals[currNormalIndices[j]], SumNormals(normals, currNormalIndices, j + 1))

\* lines 111-116
AvgNormal(normals, currNormalIndices) == Normalize(SumNormals(normals, currNormalIndices, 1))

\* mutant: the wrong stride
NextVertexIndexStride6(vertices) == Len(vertices) \div 6

\* line 123: Math.floor(vertices.length/3)
NextVertexIndex(vertices) == Len(vertices) \div 3

\* lines 119-131: one member of a group
MemberStep(out, vertexObj, avgNormal, currIndex) ==
    LET currColour == vertexObj.colours[currIndex]
        face == vertexObj.faces[currIndex][1]
        idx == vertexObj.faces[currIndex][2]
    IN  [faces |-> [out.faces EXCEPT ![face][idx] = NextVertexIndex(out.vertices)],
         vertices |-> out.vertices \o <<vertexObj.vertex.x, vertexObj.vertex.y, vertexObj.vertex.z>>,
         normalVecs |-> out.normalVecs \o <<avgNormal.x, avgNormal.y, avgNormal.z>>,
         colors |-> out.colors \o <<currColour.r, currColour.g, currColour.b>>]

RECURSIVE MemberLoop(_, _, _, _, _)
\* lines 118-132
MemberLoop(out, vertexObj, avgNormal, currNormalIndices, j) ==
    IF j > Len(currNormalIndices) THEN out
    ELSE MemberLoop(MemberStep(out, vertexObj, avgNormal, currNormalIndices[j]),
                    vertexObj, avgNormal, currNormalIndices, j + 1)

RECURSIVE GroupLoop(_, _, _, _)
\* lines 108-134
GroupLoop(out, vertexObj, grouped, i) ==
    IF i > Len(grouped) THEN out
    ELSE GroupLoop(MemberLoop(out, vertexObj, AvgNormal(vertexObj.normals, grouped[i]),
                              grouped[i], 1),
                   vertexObj, grouped, i + 1)

RECURSIVE BucketLoop(_, _, _, _)
\* lines 81-135: Object.values(vertexMap).forEach
BucketLoop(out, values, angle, b) ==
    IF b > Len(values) THEN out
    ELSE BucketLoop(GroupLoop(out, values[b], GroupNormals(values[b].normals, angle), 1),
                    values, angle, b + 1)

RECURSIVE Indices(_, _)
\* lines 137-143
Indices(faces, f) ==
    IF f > Len(faces) THEN <<>>
    ELSE <<faces[f][1], faces[f][2], faces[f][3]>> \o Indices(faces, f + 1)

\* lines 145-148: the attributes and the index of the BufferGeometry
BufferGeometry(out, colorsUsed) ==
    [attributes |-> IF colorsUsed
                    THEN [a \in {"position", "normal", "color"} |->
                            CASE a = "position" -> out.vertices
                              [] a = "normal" -> out.normalVecs
                              [] OTHER -> out.colors]
                    ELSE [a \in {"position", "normal"} |->
                            IF a = "position" THEN out.vertices ELSE out.normalVecs],
     index |-> Indices(out.faces, 1)]

\* the locals after the first loop (lines 48-78)
Bucketed(geom) == PolygonLoop(ExportLocals, geom.polygons, 1)

\* the locals after the second loop (lines 81-135)
Resolved(geom, angle) ==
    LET st == Bucketed(geom)
    IN  BucketLoop([faces |-> st.faces, vertices |-> <<>>, normalVecs |-> <<>>, colors |-> <<>>],
                   ObjectValues(st.vertexMap), angle, 1)

\* lines 34-151.  The file imports the class as _CSG (line 3) and line 35
\* names CSG: the test throws a ReferenceError unless the environment binds
\* a global CSG to the class.
exportThreeGeometry(geom, angle, bound) ==
    IF ~bound THEN [thrown |-> "ReferenceError"]
    ELSE IF geom.kind # "CSG" THEN geom
    ELSE BufferGeometry(Resolved(geom, angle), Bucketed(geom).colorsUsed)

(***************************************************************************)
(* Inputs of exportThreeGeometry                                           *)
(***************************************************************************)
\* a polygon as export reads it: vertices, plane.normal, shared.color
MeshPolygon(positions, normal, color) ==
    [vertices |-> [k \in 1..Len(positions) |-> Vertex(positions[k])],
     plane |-> [normal |-> normal],
     shared |-> [color |-> color]]

\* positions, in units of 10^-5
PA == Vector(0, 0, 0)
PB == Vector(100000, 0, 0)
PC == Vector(100000, 100000, 0)
PD == Vector(0, 100000, 0)
PG == Vector(0, 0, 100000)
PH == Vector(-50000, 50000, 0)
PAup == Vector(4, 0, 0)        \* 0.00004: rounds to 0.0000
PAneg == Vector(-4, 0, 0)      \* -0.00004: prints as -0.0000
PE == Vector(6, 0, 0)          \* 0.00006: rounds to 0.0001

Red == <<1, 0, 0, 1>>

\* the polygons meshes are made of; each normal is the normal of the plane
\* through the polygon's vertices, in winding order
PolygonSet ==
    { MeshPolygon(<<PA, PB, PC>>, Vector(0, 0, 1), NoColor),
      MeshPolygon(<<PA, PC, PD>>, Vector(0, 0, 1), NoColor),
      MeshPolygon(<<PA, PB, PC, PD>>, Vector(0, 0, 1), Red),
      MeshPolygon(<<PA, PB, PC, PD, PH>>, Vector(0, 0, 1), NoColor),
      MeshPolygon(<<PAup, PC, PB>>, Vector(0, 0, -1), NoColor),
      MeshPolygon(<<PA, PD, PG>>, Vector(1, 0, 0), Red),
      MeshPolygon(<<PA, PG, PD>>, Vector(-1, 0, 0), NoColor),
      MeshPolygon(<<PE, PB, PC>>, Vector(0, 0, 1), NoColor),
      MeshPolygon(<<PAneg, PB, PC>>, Vector(0, 0, 1), NoColor) }

SeqsUpTo(S, n) == UNION {[1..k -> S] : k \in 0..n}

\* the CSG meshes given to export, and one object that is not a CSG
Geometries ==
    {[kind |-> "CSG", polygons |-> ps] : ps \in SeqsUpTo(PolygonSet, MaxPolys) \ {<<>>}}
    \cup {[kind |-> "BufferGeometry", polygons |-> <<>>]}

\* smoothing angles in degrees; 40 is the default of line 34
Angles == {40, 90, 180}

(***************************************************************************)
(* Export calls                                                            *)
(***************************************************************************)
Init ==
    /\ pc = "ready"
    /\ globalCSG \in BOOLEAN
    /\ geometry \in Geometries
    /\ smoothingAngle \in Angles
    /\ vertexMap = None
    /\ groupedNormals = None
    /\ result = None
    /\ prevResult = None
    /\ buffer = None
    /\ csg = None
    /\ operation = None
    /\ objects = None
    /\ colors = None
    /\ outcome = None

\* the locals a call leaves behind when it gets past line 35
CallVertexMap(geom, bound) ==
    IF ~bound \/ geom.kind # "CSG" THEN None ELSE Bucketed(geom).vertexMap

CallGroupedNormals(geom, angle, bound) ==
    IF ~bound \/ geom.kind # "CSG" THEN None
    ELSE LET values == ObjectValues(Bucketed(geom).vertexMap)
         IN  [b \in 1..Len(values) |-> GroupNormals(values[b].normals, angle)]

\* the first call of exportThreeGeometry(geometry, smoothingAngle)
Export ==
    /\ pc = "ready"
    /\ pc' = "exported"
    /\ result' = exportThreeGeometry(geometry, smoothingAngle, globalCSG)
    /\ vertexMap' = CallVertexMap(geometry, globalCSG)
    /\ groupedNormals' = CallGroupedNormals(geometry, smoothingAngle, globalCSG)
    /\ UNCHANGED <<globalCSG, geometry, smoothingAngle, prevResult>>
    /\ UNCHANGED importVars
    /\ UNCHANGED dispatchVars

\* a second call on the same, unmodified mesh with the same angle
ExportAgain ==
    /\ pc = "exported"
    /\ pc' = "again"
    /\ prevResult' = result
    /\ result' = exportThreeGeometry(geometry, smoothingAngle, globalCSG)
    /\ vertexMap' = CallVertexMap(geometry, globalCSG)
    /\ groupedNormals' = CallGroupedNormals(geometry, smoothingAngle, globalCSG)
    /\ UNCHANGED <<globalCSG, geometry, smoothingAngle>>
    /\ UNCHANGED importVars
    /\ UNCHANGED dispatchVars

Next == Export \/ ExportAgain

Spec == Init /\ [][Next]_vars

(***************************************************************************)
(* importThreeGeometry                                                     *)
(***************************************************************************)
\* a value read from an array: <<n>> is the number n, <<>> is undefined
Undefined == <<>>

Num(n) == <<n>>

\* array[k] for a 0-based k of a typed array: undefined past the end
ArrayGet(array, k) == IF k \in 0..(Len(array) - 1) THEN Num(array[k + 1]) ELSE Undefined

\* new Polygon(vertices)
Polygon(vertices) == [vertices |-> vertices, shared |-> [color |-> NoColor]]

\* line 12
IndexArray(geom) == IF geom.indexed THEN geom.index ELSE <<>>

\* line 14: vectors[vertices[x] * 3 + y]; undefined * 3 + y is NaN and
\* vectors[NaN] is undefined
getVector(vertices, vectors, x, y) ==
    LET i == ArrayGet(vertices, x)
    IN  IF i = Undefined THEN Undefined ELSE ArrayGet(vectors, i[1] * 3 + y)

\* line 15
getVertex(vertices, vectors, x) ==
    Vertex(Vector(getVector(vertices, vectors, x, 0),
                  getVector(vertices, vectors, x, 1),
                  getVector(vertices, vectors, x, 2)))

\* line 16
getVertex2(vectors, x) ==
    Vertex(Vector(ArrayGet(vectors, x), ArrayGet(vectors, x + 1), ArrayGet(vectors, x + 2)))

\* line 17
getVertexes(vertices, vectors, x) ==
    <<getVertex(vertices, vectors, x), getVertex(vertices, vectors, x + 1),
      getVertex(vertices, vectors, x + 2)>>

RECURSIVE IndexedLoop(_, _, _)
\* lines 20-22
IndexedLoop(vertices, vectors, x) ==
    IF x < Len(vertices)
    THEN <<Polygon(getVertexes(vertices, vectors, x))>> \o IndexedLoop(vertices, vectors, x + 3)
    ELSE <<>>

RECURSIVE SoupLoop(_, _)
\* lines 24-26
SoupLoop(vectors, x) ==
    IF x < Len(vectors)
    THEN <<Polygon(<<getVertex2(vectors, x), getVertex2(vectors, x + 3),
                     getVertex2(vectors, x + 6)>>)>> \o SoupLoop(vectors, x + 9)
    ELSE <<>>

\* lines 8-32.  The value has a field thrown so that a caller can tell a
\* returned mesh from an error; no path of the function throws.
importThreeGeometry(geom) ==
    IF geom.kind = "CSG" THEN [thrown |-> FALSE, value |-> geom]
    ELSE LET vertices == IndexArray(geom)
             vectors == geom.position
         IN  [thrown |-> FALSE,
              value |-> [kind |-> "CSG",
                         polygons |-> IF Len(vertices) # 0
                                      THEN IndexedLoop(vertices, vectors, 0)
                                      ELSE SoupLoop(vectors, 0),
                         isCanonicalized |-> FALSE,
                         isRetesselated |-> FALSE]]

\* a position array of n floats; the float at 0-based place k is 10 + k
Floats(n) == [k \in 1..n |-> 9 + k]

\* the buffers given to import: indexed over 2 or 3 positions, and triangle
\* soups of every length up to two triangles
BufferGeometries ==
    {[kind |-> "BufferGeometry", indexed |-> TRUE, index |-> ix, position |-> Floats(n)] :
        ix \in SeqsUpTo(0..3, MaxIndex), n \in {6, 9}}
    \cup {[kind |-> "BufferGeometry", indexed |-> FALSE, index |-> <<>>, position |-> Floats(n)] :
        n \in 0..18}

\* a mesh that is already a CSG
SomeCSG ==
    [kind |-> "CSG",
     polygons |-> <<Polygon(<<Vertex(Vector(Num(0), Num(0), Num(0))),
                              Vertex(Vector(Num(1), Num(0), Num(0))),
                              Vertex(Vector(Num(1), Num(1), Num(0)))>>)>>,
     isCanonicalized |-> TRUE,
     isRetesselated |-> TRUE]

InitImport ==
    /\ pc = "ready"
    /\ buffer \in BufferGeometries \cup {SomeCSG}
    /\ csg = None
    /\ globalCSG = None
    /\ geometry = None
    /\ smoothingAngle = None
    /\ vertexMap = None
    /\ groupedNormals = None
    /\ result = None
    /\ prevResult = None
    /\ operation = None
    /\ objects = None
    /\ colors = None
    /\ outcome = None

\* the call importThreeGeometry(buffer)
Import ==
    /\ pc = "ready"
    /\ pc' = "imported"
    /\ csg' = importThreeGeometry(buffer)
    /\ UNCHANGED buffer
    /\ UNCHANGED exportVars
    /\ UNCHANGED dispatchVars

NextImport == Import

SpecImport == InitImport /\ [][NextImport]_vars

(***************************************************************************)
(* runOperation                                                            *)
(***************************************************************************)
\* the members of a CSG object that can be called: the boolean operations,
\* setColor (called at line 160) and what every object inherits
CSGMethods == {"union", "subtract", "intersect", "setColor", "toString"}

\* colors[index] as a value: <<c>> or undefined
ColorAt(cols, index) == IF index \in 1..Len(cols) THEN cols[index] ELSE Undefined

RECURSIVE prepareObjects(_, _, _)
\* lines 156-163, from object index on: the converted objects and the calls
\* made on them, each <<index of the object, member called, line of the call>>
prepareObjects(objs, cols, index) ==
    IF index > Len(objs) THEN [objects |-> <<>>, calls |-> <<>>]
    ELSE LET convertedObject == importThreeGeometry(objs[index]).value
             rest == prepareObjects(objs, cols, index + 1)
         IN  [objects |-> <<convertedObject>> \o rest.objects,
              calls |-> (IF ColorAt(cols, index) # Undefined
                         THEN <<<<index, "setColor", 160>>>> ELSE <<>>) \o rest.calls]

\* lines 165-171: the calls made on the objects (object 1 is the receiver)
\* and how the function ends
runOperation(op, objs, cols) ==
    LET prepared == prepareObjects(objs, cols, 1)
    IN  IF Len(prepared.objects) = 0
        THEN [calls |-> prepared.calls, end |-> "TypeError"]
        ELSE IF op \in CSGMethods
             THEN [calls |-> Append(prepared.calls, <<1, op, 170>>), end |-> "returned"]
             ELSE [calls |-> prepared.calls, end |-> "TypeError"]

\* operation names given to runOperation
OperationNames == {"union", "subtract", "intersect", "setColor", "toString", "polygons", "explode"}

\* a soup of one triangle
OneTriangle == [kind |-> "BufferGeometry", indexed |-> FALSE, index |-> <<>>, position |-> Floats(9)]

\* colors[index]: absent, or a color
ColorArgs == {Undefined, <<[r |-> 1, g |-> 0, b |-> 0]>>}

InitDispatch ==
    /\ pc = "ready"
    /\ operation \in OperationNames
    /\ objects \in SeqsUpTo({SomeCSG, OneTriangle}, MaxObjects)
    /\ colors \in SeqsUpTo(ColorArgs, MaxObjects)
    /\ outcome = None
    /\ globalCSG = None
    /\ geometry = None
    /\ smoothingAngle = None
    /\ vertexMap = None
    /\ groupedNormals = None
    /\ result = None
    /\ prevResult = None
    /\ buffer = None
    /\ csg = None

\* the call runOperation(operation, objects, colors)
Dispatch ==
    /\ pc = "ready"
    /\ pc' = "dispatched"
    /\ outcome' = runOperation(operation, objects, colors)
    /\ UNCHANGED <<operation, objects, colors>>
    /\ UNCHANGED exportVars
    /\ UNCHANGED importVars

NextDispatch == Dispatch

SpecDispatch == InitDispatch /\ [][NextDispatch]_vars

(***************************************************************************)
(* Properties of exportThreeGeometry.  The helpers below describe the      *)
(* input mesh and the returned buffers; they do not use the export code.   *)
(***************************************************************************)
\* an export call on a mesh has returned buffers
Exported == pc \in {"exported", "again"} /\ globalCSG /\ geometry.kind = "CSG"

\* number of fan triangles of the polygons before polygon p
RECURSIVE TrianglesBefore(_, _)
TrianglesBefore(polygons, p) ==
    IF p <= 1 THEN 0
    ELSE TrianglesBefore(polygons, p - 1) + (Len(polygons[p - 1].vertices) - 2)

\* the triangle corners of the mesh: polygon p, fan triangle k, corner c
Corners ==
    UNION {{<<p, k, c>> : k \in 0..(Len(geometry.polygons[p].vertices) - 3), c \in 1..3} :
             p \in 1..Len(geometry.polygons)}

\* where corner t stands in the index buffer (1-based)
Slot(t) == 3 * (TrianglesBefore(geometry.polygons, t[1]) + t[2]) + t[3]

\* the input position and normal of corner t: triangle k of a fan uses the
\* polygon's vertices 0, k+1, k+2
CornerPos(t) ==
    geometry.polygons[t[1]].vertices[(IF t[3] = 1 THEN 0 ELSE t[2] + t[3] - 1) + 1].pos

CornerNormal(t) == geometry.polygons[t[1]].plane.normal

CornerColored(t) == geometry.polygons[t[1]].shared.color # NoColor

\* a coordinate rounded to 4 fractional digits, and the WeldKey of a position
Round4(x) == IF x < 0 THEN 0 - ((5 - x) \div 10) ELSE (x + 5) \div 10

WeldKey(pos) == <<Round4(pos.x), Round4(pos.y), Round4(pos.z)>>

\* the returned buffers
OutIndex(t) == result.index[Slot(t)]

VertexCount == Len(result.attributes["position"]) \div 3

Triple(array, i) == <<array[3 * i + 1], array[3 * i + 2], array[3 * i + 3]>>

OutPosition(i) ==
    LET p == Triple(result.attributes["position"], i) IN Vector(p[1], p[2], p[3])

OutNormal(i) ==
    LET n == Triple(result.attributes["normal"], i) IN Vector(n[1], n[2], n[3])

OutColor(i) == Triple(result.attributes["color"], i)

\* the members of the smoothing groups the call found: bucket b, group g,
\* place m in the group
Members ==
    UNION {UNION {{<<b, g, m>> : m \in 1..Len(groupedNormals[b][g])} :
                    g \in 1..Len(groupedNormals[b])} :
             b \in 1..Len(groupedNormals)}

Bucket(b) == vertexMap.val[vertexMap.keys[b]]

\* the place in the index buffer that member t fills, and the normal of the
\* seed of its group
MemberSlot(t) ==
    LET ref == Bucket(t[1]).faces[groupedNormals[t[1]][t[2]][t[3]]]
    IN  3 * (ref[1] - 1) + ref[2]

SeedNormal(t) == Bucket(t[1]).normals[groupedNormals[t[1]][t[2]][1]]

\* the member that stands for corner t
MemberOf(t) == CHOOSE m \in Members : MemberSlot(m) = Slot(t)

\* C1: two corners with the same WeldKey that the clustering puts in the
\* same smoothing group are written the same output vertex index.
WeldCorrect ==
    Exported =>
        \A t1 \in Corners : \A t2 \in Corners :
            (/\ WeldKey(CornerPos(t1)) = WeldKey(CornerPos(t2))
             /\ MemberOf(t1)[1] = MemberOf(t2)[1]
             /\ MemberOf(t1)[2] = MemberOf(t2)[2])
            => OutIndex(t1) = OutIndex(t2)

\* number of smoothing groups over all buckets
RECURSIVE GroupCount(_, _)
GroupCount(grouped, b) ==
    IF b > Len(grouped) THEN 0 ELSE Len(grouped[b]) + GroupCount(grouped, b + 1)

UnitSquare ==
    [kind |-> "CSG",
     polygons |-> <<MeshPolygon(<<PA, PB, PC>>, Vector(0, 0, 1), NoColor),
                    MeshPolygon(<<PA, PC, PD>>, Vector(0, 0, 1), NoColor)>>]

\* C2: the number of output vertices is the number of smoothing groups,
\* summed over the buckets; the unit square of two triangles has 4 output
\* vertices and 6 indices.
VertexCountIsGroupCount ==
    Exported =>
        /\ VertexCount = GroupCount(groupedNormals, 1)
        /\ geometry = UnitSquare => VertexCount = 4 /\ Len(result.index) = 6

\* C3: corners whose WeldKeys differ, or one of which has a normal further
\* than the threshold from the seed normal of the other's group, never get
\* the same output vertex index; the output vertex of a corner has the
\* position of the corner's bucket and the normal averaged over the corner's
\* group.
HardEdgeAndPositionSeparation ==
    Exported =>
        /\ \A t1 \in Corners : \A t2 \in Corners :
              (\/ WeldKey(CornerPos(t1)) # WeldKey(CornerPos(t2))
               \/ AngleTo(CornerNormal(t1), SeedNormal(MemberOf(t2))) > smoothingAngle)
              => OutIndex(t1) # OutIndex(t2)
        /\ \A m \in Members :
              LET i == result.index[MemberSlot(m)]
                  group == groupedNormals[m[1]][m[2]]
                  sum == [a \in {"x", "y", "z"} |->
                            LET S[k \in 0..Len(group)] ==
                                    IF k = 0 THEN 0
                                    ELSE S[k - 1] + Bucket(m[1]).normals[group[k]][a]
                            IN  S[Len(group)]]
              IN  /\ OutPosition(i) = Bucket(m[1]).vertex
                  /\ OutNormal(i) = Normalize(Vector(sum["x"], sum["y"], sum["z"]))

\* C3 witness: a hard edge was exported: two corners at one WeldKey in
\* different smoothing groups, with different output vertices
HardEdgeExported ==
    /\ Exported
    /\ \E t1 \in Corners : \E t2 \in Corners :
          /\ WeldKey(CornerPos(t1)) = WeldKey(CornerPos(t2))
          /\ AngleTo(CornerNormal(t1), SeedNormal(MemberOf(t2))) > smoothingAngle
          /\ OutIndex(t1) # OutIndex(t2)
          /\ OutNormal(OutIndex(t1)) # OutNormal(OutIndex(t2))

\* triangles of the whole mesh
TriangleCount == TrianglesBefore(geometry.polygons, Len(geometry.polygons) + 1)

\* C4: a polygon of n vertices gives n-2 triangles fanned from vertex 0, in
\* polygon order then fan order; the index buffer has 3 entries per triangle,
\* each a valid output vertex whose position has the WeldKey of the corner.
TriangulationCorrect ==
    Exported =>
        /\ Len(result.index) = 3 * TriangleCount
        /\ \A t \in Corners :
              /\ OutIndex(t) \in 0..(VertexCount - 1)
              /\ WeldKey(OutPosition(OutIndex(t))) = WeldKey(CornerPos(t))

\* C4 witness: a polygon of more than 3 vertices was exported with other
\* polygons
FanExported ==
    /\ Exported
    /\ Len(geometry.polygons) >= 2
    /\ \E p \in 1..Len(geometry.polygons) : Len(geometry.polygons[p].vertices) = 5
    /\ Len(result.index) = 3 * TriangleCount

\* C5: there is a color buffer iff a polygon has a shared color; it has one
\* color per output vertex; a vertex touched only by uncolored polygons is
\* white.
ColorPresence ==
    Exported =>
        /\ ("color" \in DOMAIN result.attributes)
              <=> (\E p \in 1..Len(geometry.polygons) :
                      geometry.polygons[p].shared.color # NoColor)
        /\ "color" \in DOMAIN result.attributes =>
              /\ Len(result.attributes["color"]) = 3 * VertexCount
              /\ \A i \in 0..(VertexCount - 1) :
                    (\A t \in Corners : OutIndex(t) = i => ~CornerColored(t))
                    => OutColor(i) = <<1, 1, 1>>

\* C5 witness: a mesh of colored and uncolored polygons was exported and a
\* vertex of an uncolored polygon that follows a colored one is white
MixedColorsExported ==
    /\ Exported
    /\ "color" \in DOMAIN result.attributes
    /\ \E t \in Corners :
          /\ ~CornerColored(t)
          /\ t[1] > 1
          /\ geometry.polygons[t[1] - 1].shared.color # NoColor
          /\ OutColor(OutIndex(t)) = <<1, 1, 1>>

\* C8: no output vertex gets the zero vector as its normal when the normals
\* of its group sum to the zero vector (the input normals have length 1).
NoZeroNormal ==
    Exported => \A i \in 0..(VertexCount - 1) : OutNormal(i) # Vector(0, 0, 0)

\* first place in corner order (polygons, fan triangles, corners) of a hash
FirstOccurrence(hash) ==
    LET slots == {Slot(t) : t \in {u \in Corners : Hash(CornerPos(u)) = hash}}
    IN  CHOOSE n \in slots : \A o \in slots : n <= o

GreedySeedClustering ==
    Exported =>
        \A b \in 1..Len(groupedNormals) :
            LET normals == Bucket(b).normals
                groups == groupedNormals[b]
                set(g) == {groups[g][m] : m \in 1..Len(groups[g])}
                earlier(g) == UNION {set(h) : h \in 1..(g - 1)}
                seed(g) == groups[g][1]
            IN  /\ UNION {set(g) : g \in 1..Len(groups)} = 1..Len(normals)
                /\ \A g \in 1..Len(groups) :
                      /\ Len(groups[g]) >= 1
                      /\ Cardinality(set(g)) = Len(groups[g])
                      /\ set(g) \cap earlier(g) = {}
                      /\ seed(g) \in (1..Len(normals)) \ earlier(g)
                      /\ \A o \in (1..Len(normals)) \ earlier(g) : seed(g) <= o
                      /\ set(g) = {seed(g)} \cup
                            {j \in (1..Len(normals)) \ earlier(g) :
                                /\ j > seed(g)
                                /\ AngleTo(normals[seed(g)], normals[j]) <= smoothingAngle}

\* C10 witness: a corner within the threshold of an admitted member, but not
\* of the seed, stays out of the group
NotTransitive ==
    /\ Exported
    /\ \E b \in 1..Len(groupedNormals) :
          LET normals == Bucket(b).normals
              group == groupedNormals[b][1]
          IN  \E m \in 2..Len(group) : \E j \in 1..Len(normals) :
                  /\ \A n \in 1..Len(group) : group[n] # j
                  /\ AngleTo(normals[group[m]], normals[j]) <= smoothingAngle
                  /\ AngleTo(normals[group[1]], normals[j]) > smoothingAngle

\* a buffer that the ingestion contract rejects
Malformed(geom) ==
    /\ geom.kind = "BufferGeometry"
    /\ \/ geom.indexed /\ Len(geom.index) % 3 # 0
       \/ ~geom.indexed /\ Len(geom.position) % 9 # 0
       \/ geom.indexed /\ \E k \in 1..Len(geom.index) : 3 * geom.index[k] + 2 >= Len(geom.position)

\* C6: a malformed buffer ends in a validation error and no mesh.
ImportValidates == (pc = "imported" /\ Malformed(buffer)) => csg.thrown

\* the boolean operations
AllowList == {"union", "subtract", "intersect"}

\* C7: an operation name outside the allow-list is an error and the dispatch
\* calls no method of the receiver.
OnlyAllowedOperations ==
    (pc = "dispatched" /\ operation \notin AllowList) =>
        /\ outcome.end # "returned"
        /\ \A k \in 1..Len(outcome.calls) :
              ~(outcome.calls[k][1] = 1 /\ outcome.calls[k][3] = 170)

====
